---- MODULE Spec2Model ----
(***************************************************************************)
(* Model of src/main.py: a Flask service offering create / read / update / *)
(* delete over one SQLite table `users`.                                   *)
(*                                                                         *)
(* Shared state is the table and SQLite's AUTOINCREMENT counter.  Each     *)
(* request context has its own `g` (the lazily opened connection) and the  *)
(* handler's local variables.  Every SQL statement is executed and         *)
(* committed in one atomic step (SQLite serialises writers); the only      *)
(* handler that issues two statements is update_user (SELECT, then         *)
(* UPDATE), and other requests may run between the two.                    *)
(***************************************************************************)
EXTENDS Integers, FiniteSets

\* Ids that requests may name and that AUTOINCREMENT may hand out.
MaxId == 2

\* Request contexts that may be in flight at the same time.  Contexts share
\* nothing but the table, and a handler issues at most two statements: what
\* one request can observe of the others is a change of the table between
\* its SELECT and its UPDATE, which a second context suffices to produce.
Procs == {"r1", "r2"}

Ids == 1..MaxId

\* Python's None (data.get of an absent key or of a JSON null).
None == "None"
\* A JSON value that is truthy but that sqlite3 cannot bind (a list).
List == "[list]"

Names == {"Ann", "Bob"}
Emails == {"ann@x.com", "bob@x.com"}
\* datetime.utcnow().isoformat(): the table never reads it back.
UtcNow == "utcnow"

\* What a JSON object may hold under a key: nothing, null, "", text, a list.
Absent == "<absent>"
Null == "<null>"
NameVals == {Absent, Null, "", List} \cup Names
EmailVals == {Absent, Null, ""} \cup Emails

\* request.get_json(): no body (None), a JSON array, or a JSON object.
Bodies ==
    {[json |-> "none", name |-> Absent, email |-> Absent],
     [json |-> "array", name |-> Absent, email |-> Absent]}
    \cup {[json |-> "object", name |-> n, email |-> e] :
            n \in NameVals, e \in EmailVals}

VARIABLES
    users,      \* the rows of table users
    seq,        \* sqlite_sequence: the largest id AUTOINCREMENT has assigned
    openConns,  \* sqlite3 connections opened and not yet closed
    g_db,       \* g_db[p]: "db" in g, for request context p
    pc,         \* "idle", "update" (update_user between SELECT and UPDATE), "done"
    handler,    \* the view function the request was routed to
    user_id,    \* the <int:user_id> of the request's path (0: the route has none)
    status,     \* the response's HTTP status once the handler has returned
    name, email, new_name, new_email   \* update_user's locals

vars == <<users, seq, openConns, g_db, pc, handler, user_id, status,
          name, email, new_name, new_email>>

locals == <<name, email, new_name, new_email>>

----------------------------------------------------------------------------
\* Variant: `is not None` in place of truthiness.
Truthy_IsNotNone(v) == v # None

\* Python truthiness of a value read from the body.
Truthy(v) == v \notin {None, ""}

\* `not data`: None, or an object with no keys.
NotData(data) ==
    \/ data.json = "none"
    \/ data.json = "object" /\ data.name = Absent /\ data.email = Absent

\* data.get(key): None for an absent key and for a JSON null.
Get(v) == IF v \in {Absent, Null} THEN None ELSE v

RowIds(rows) == {r.id : r \in rows}

RowOf(rows, id) == CHOOSE r \in rows : r.id = id

Max(a, b) == IF a >= b THEN a ELSE b

\* Variant: `given if given is not None else old`.
Merge_IsNotNone(given, old) == IF given # None THEN given ELSE old

\* `given if given else old`
Merge(given, old) == IF Truthy(given) THEN given ELSE old

\* The status error_response gives when the caller passes none.
DefaultStatus == 400

\* The status of error_response("Email already exists", 409)
Conflict == 409

MaxRowId(rows) ==
    IF rows = {} THEN 0
    ELSE CHOOSE i \in RowIds(rows) : \A j \in RowIds(rows) : j <= i

----------------------------------------------------------------------------
(* Storage: the schema of init_db and the effect of each statement. *)

\* Variant: the column is declared without UNIQUE.
EmailTaken_NoUnique(rows, e, id) == FALSE

\* Variant: the uniqueness check does not set the updated row itself aside.
EmailTaken_AnyRow(rows, e, id) == \E r \in rows : r.email = e

\* email TEXT UNIQUE: a row other than `id` already holds `e`.
EmailTaken(rows, e, id) == \E r \in rows : r.email = e /\ r.id # id

\* Variant: INTEGER PRIMARY KEY without AUTOINCREMENT (largest live id + 1).
NextId_NoAutoincrement(rows, s) == MaxRowId(rows) + 1

\* id INTEGER PRIMARY KEY AUTOINCREMENT: one more than the largest id ever used.
NextId(rows, s) == Max(s, MaxRowId(rows)) + 1

\* INSERT INTO users (name, email, created_at) VALUES (?, ?, ?)
InsertRow(rows, s, n, e) ==
    rows \cup {[id |-> NextId(rows, s), name |-> n, email |-> e,
                created_at |-> UtcNow]}

\* UPDATE users SET name = ?, email = ? WHERE id = ?
UpdateRow(rows, id, n, e) ==
    {IF r.id = id THEN [r EXCEPT !.name = n, !.email = e] ELSE r : r \in rows}

\* Variant: the DELETE is never committed and is rolled back at close.
DeleteRow_NoCommit(rows, id) == rows

\* DELETE FROM users WHERE id = ?
DeleteRow(rows, id) == {r \in rows : r.id # id}

\* cursor.rowcount of the DELETE
RowCount(rows, id) == Cardinality({r \in rows : r.id = id})

----------------------------------------------------------------------------
(* The request context. *)

\* Variant: the connection is returned without being kept in g.
get_db_NotKept(p) ==
    /\ openConns' = openConns + 1
    /\ UNCHANGED g_db

\* get_db: connect on the first call of the request, then reuse g.db.
get_db(p) ==
    IF ~g_db[p]
    THEN /\ g_db' = [g_db EXCEPT ![p] = TRUE]
         /\ openConns' = openConns + 1
    ELSE UNCHANGED <<g_db, openConns>>

\* The request is routed to view function `h` with path parameter `id`.
Route(p, h, id) ==
    /\ pc[p] = "idle"
    /\ handler' = [handler EXCEPT ![p] = h]
    /\ user_id' = [user_id EXCEPT ![p] = id]

\* The handler returns (or raises): the response carries `code`.
Respond(p, code) ==
    /\ pc' = [pc EXCEPT ![p] = "done"]
    /\ status' = [status EXCEPT ![p] = code]
    /\ name' = [name EXCEPT ![p] = None]
    /\ email' = [email EXCEPT ![p] = None]
    /\ new_name' = [new_name EXCEPT ![p] = None]
    /\ new_email' = [new_email EXCEPT ![p] = None]

\* close_db, the teardown of the request's context: pop g.db and close it.
close_db(p) ==
    /\ pc[p] = "done"
    /\ pc' = [pc EXCEPT ![p] = "idle"]
    /\ handler' = [handler EXCEPT ![p] = ""]
    /\ user_id' = [user_id EXCEPT ![p] = 0]
    /\ status' = [status EXCEPT ![p] = 0]
    /\ g_db' = [g_db EXCEPT ![p] = FALSE]
    /\ openConns' = IF g_db[p] THEN openConns - 1 ELSE openConns
    /\ UNCHANGED <<users, seq, locals>>

----------------------------------------------------------------------------
(* The handlers. *)

\* GET /
home(p) ==
    /\ Route(p, "home", 0)
    /\ Respond(p, 200)
    /\ UNCHANGED <<users, seq, g_db, openConns>>

\* GET /users
get_users(p) ==
    /\ Route(p, "get_users", 0)
    /\ get_db(p)
    /\ Respond(p, 200)
    /\ UNCHANGED <<users, seq>>

\* GET /users/<id>
get_user(p, id) ==
    /\ Route(p, "get_user", id)
    /\ get_db(p)
    /\ Respond(p, IF id \in RowIds(users) THEN 200 ELSE 404)
    /\ UNCHANGED <<users, seq>>

\* POST /users
create_user(p, data) ==
    /\ Route(p, "create_user", 0)
    /\ IF data.json = "array"
       THEN \* data.get raises AttributeError
            /\ Respond(p, 500)
            /\ UNCHANGED <<users, seq, g_db, openConns>>
       ELSE IF NotData(data) \/ ~Truthy(Get(data.name)) \/ ~Truthy(Get(data.email))
       THEN /\ Respond(p, 400)
            /\ UNCHANGED <<users, seq, g_db, openConns>>
       ELSE /\ get_db(p)
            /\ IF Get(data.name) = List
               THEN \* the parameter cannot be bound: sqlite3 raises, not IntegrityError
                    /\ Respond(p, 500)
                    /\ UNCHANGED <<users, seq>>
               ELSE IF EmailTaken(users, Get(data.email), 0)
               THEN /\ Respond(p, Conflict)
                    /\ UNCHANGED <<users, seq>>
               ELSE /\ NextId(users, seq) <= MaxId
                    /\ users' = InsertRow(users, seq, Get(data.name), Get(data.email))
                    /\ seq' = NextId(users, seq)
                    /\ Respond(p, 201)

\* PUT /users/<id>, up to the point where the UPDATE is about to be executed
update_user(p, id, data) ==
    /\ Route(p, "update_user", id)
    /\ UNCHANGED <<users, seq>>
    /\ IF data.json = "array"
       THEN /\ Respond(p, 500)
            /\ UNCHANGED <<g_db, openConns>>
       ELSE IF NotData(data) \/ (~Truthy(Get(data.name)) /\ ~Truthy(Get(data.email)))
       THEN /\ Respond(p, 400)
            /\ UNCHANGED <<g_db, openConns>>
       ELSE /\ get_db(p)
            /\ IF id \notin RowIds(users)
               THEN Respond(p, 404)
               ELSE LET user == RowOf(users, id) IN
                    /\ pc' = [pc EXCEPT ![p] = "update"]
                    /\ name' = [name EXCEPT ![p] = Get(data.name)]
                    /\ email' = [email EXCEPT ![p] = Get(data.email)]
                    /\ new_name' = [new_name EXCEPT ![p] =
                          Merge(Get(data.name), user.name)]
                    /\ new_email' = [new_email EXCEPT ![p] =
                          Merge(Get(data.email), user.email)]
                    /\ UNCHANGED status

\* PUT /users/<id>: the UPDATE, its commit and the response
update_user_execute(p) ==
    /\ pc[p] = "update"
    /\ UNCHANGED <<seq, g_db, openConns, handler, user_id>>
    /\ IF new_name[p] = List
       THEN /\ Respond(p, 500)
            /\ UNCHANGED users
       ELSE IF user_id[p] \in RowIds(users) /\ EmailTaken(users, new_email[p], user_id[p])
       THEN /\ Respond(p, Conflict)
            /\ UNCHANGED users
       ELSE /\ users' = UpdateRow(users, user_id[p], new_name[p], new_email[p])
            /\ Respond(p, 200)

\* DELETE /users/<id>
delete_user(p, id) ==
    /\ Route(p, "delete_user", id)
    /\ get_db(p)
    /\ users' = DeleteRow(users, id)
    /\ Respond(p, IF RowCount(users, id) = 0 THEN 404 ELSE 200)
    /\ UNCHANGED seq

----------------------------------------------------------------------------
\* After init_db: the table exists and is empty; no request is in flight.
Init ==
    /\ users = {}
    /\ seq = 0
    /\ openConns = 0
    /\ g_db = [p \in Procs |-> FALSE]
    /\ pc = [p \in Procs |-> "idle"]
    /\ handler = [p \in Procs |-> ""]
    /\ user_id = [p \in Procs |-> 0]
    /\ status = [p \in Procs |-> 0]
    /\ name = [p \in Procs |-> None]
    /\ email = [p \in Procs |-> None]
    /\ new_name = [p \in Procs |-> None]
    /\ new_email = [p \in Procs |-> None]

Next ==
    \/ \E p \in Procs : home(p)
    \/ \E p \in Procs : get_users(p)
    \/ \E p \in Procs, id \in Ids : get_user(p, id)
    \/ \E p \in Procs, data \in Bodies : create_user(p, data)
    \/ \E p \in Procs, id \in Ids, data \in Bodies : update_user(p, id, data)
    \/ \E p \in Procs : update_user_execute(p)
    \/ \E p \in Procs, id \in Ids : delete_user(p, id)
    \/ \E p \in Procs : close_db(p)

Spec == Init /\ [][Next]_vars

TypeOK ==
    /\ \A r \in users : r.id \in Ids /\ r.name \in Names /\ r.email \in Emails
    /\ seq \in 0..MaxId
    /\ openConns \in 0..Cardinality(Procs)
    /\ \A p \in Procs :
        /\ pc[p] \in {"idle", "update", "done"}
        /\ status[p] \in {0, 200, 201, 400, 404, 409, 500}

----------------------------------------------------------------------------
(* Requests handled one at a time: a request is routed only when no other  *)
(* request context is live.                                                *)

Alone(p) == \A q \in Procs \ {p} : pc[q] = "idle"

NextSeq ==
    \/ \E p \in Procs : Alone(p) /\ home(p)
    \/ \E p \in Procs : Alone(p) /\ get_users(p)
    \/ \E p \in Procs, id \in Ids : Alone(p) /\ get_user(p, id)
    \/ \E p \in Procs, data \in Bodies : Alone(p) /\ create_user(p, data)
    \/ \E p \in Procs, id \in Ids, data \in Bodies : Alone(p) /\ update_user(p, id, data)
    \/ \E p \in Procs : Alone(p) /\ update_user_execute(p)
    \/ \E p \in Procs, id \in Ids : Alone(p) /\ delete_user(p, id)
    \/ \E p \in Procs : Alone(p) /\ close_db(p)

SpecSeq == Init /\ [][NextSeq]_vars

----------------------------------------------------------------------------
(* Vocabulary of the properties. *)

\* The body is a JSON object whose key holds non-empty text.
SuppliesName(data) == data.json = "object" /\ data.name \in Names
SuppliesEmail(data) == data.json = "object" /\ data.email \in Emails

\* The body is a JSON object whose key is absent, null or the empty string.
OmitsName(data) == data.json = "object" /\ data.name \in {Absent, Null, ""}
OmitsEmail(data) == data.json = "object" /\ data.email \in {Absent, Null, ""}

\* The body is missing, or an object in which neither field is supplied.
NothingSupplied(data) ==
    \/ data.json = "none"
    \/ OmitsName(data) /\ OmitsEmail(data)

Holders(rows, e) == {r \in rows : r.email = e}

\* This step routes a request of context p to view function h.
Routed(p, h) == pc[p] = "idle" /\ handler'[p] = h

Done(p, h, code) == pc[p] = "done" /\ handler[p] = h /\ status[p] = code

----------------------------------------------------------------------------
\* C1: in every reachable state, under any interleaving of POST, PUT and
\* DELETE requests, no two rows of users have the same email.
C1_EmailUnique ==
    \A r1, r2 \in users : r1.email = r2.email => r1 = r2

\* Two rows exist and a request has just been refused for its email.
C1_Witness ==
    /\ Cardinality(users) = 2
    /\ \E p \in Procs : pc[p] = "done" /\ status[p] = 409

\* C2 (as claimed): PUT on an id with no row responds 404 whatever the body,
\* a missing or empty body and a body without name and email included
\* (stated contrapositively: no such request ends with another status).
C2_Always404 ==
    [][\A p \in Procs, id \in Ids :
        (Routed(p, "update_user") /\ user_id'[p] = id /\ id \notin RowIds(users)) =>
        \A data \in Bodies :
            (data.json # "array" /\ status'[p] # 404)
            => ~update_user(p, id, data)]_vars

\* C2 (amended): PUT on an id with no row responds 404 when the body is an
\* object that supplies a non-empty name or email, and 400 when the body is
\* missing or supplies neither.
C2_404OnlyWithValidBody ==
    [][\A p \in Procs, id \in Ids :
        (Routed(p, "update_user") /\ user_id'[p] = id /\ id \notin RowIds(users)) =>
        \A data \in Bodies :
            (data.json # "array"
                /\ status'[p] # IF NothingSupplied(data) THEN 400 ELSE 404)
            => ~update_user(p, id, data)]_vars

\* A PUT with a valid body on an id that was never assigned was answered 404.
C2_Witness ==
    \E p \in Procs : Done(p, "update_user", 404) /\ user_id[p] > seq

\* C3: POST with a non-empty name and an email that a row already holds
\* responds 409 and leaves the table as it was: one row with that email.
C3_DuplicateCreateRefused ==
    [][\A p \in Procs : Routed(p, "create_user") =>
        \A data \in Bodies :
            (create_user(p, data) /\ SuppliesName(data) /\ SuppliesEmail(data)
                /\ Holders(users, data.email) # {})
            => /\ status'[p] = 409
               /\ users' = users
               /\ Cardinality(Holders(users', data.email)) = 1]_vars

\* A POST was answered 409 while the table holds the single row ever created.
C3_Witness ==
    /\ seq = 1
    /\ Cardinality(users) = 1
    /\ \E p \in Procs : Done(p, "create_user", 409)

\* C4: with requests handled one at a time, a PUT on an existing id that
\* supplies only a non-empty name and responds 200 leaves the row's email as
\* it was before the request, and one that supplies only a non-empty email
\* leaves the name; an empty string or null counts as not supplied.
C4_FrameWhenAlone ==
    /\ [](\A p \in Procs : pc[p] = "update" =>
            /\ user_id[p] \in RowIds(users)
            /\ ~Truthy(email[p]) => new_email[p] = RowOf(users, user_id[p]).email
            /\ ~Truthy(name[p]) => new_name[p] = RowOf(users, user_id[p]).name)
    /\ [][\A p \in Procs :
            (update_user_execute(p) /\ status'[p] = 200)
            => /\ (name[p] \in Names /\ ~Truthy(email[p]))
                  => RowOf(users', user_id[p]).email = RowOf(users, user_id[p]).email
               /\ (email[p] \in Emails /\ ~Truthy(name[p]))
                  => RowOf(users', user_id[p]).name = RowOf(users, user_id[p]).name]_vars

\* A PUT that gives a new name and an empty-string email is about to update.
C4_Witness ==
    \E p \in Procs :
        /\ pc[p] = "update"
        /\ name[p] \in Names
        /\ email[p] = ""
        /\ user_id[p] \in RowIds(users)
        /\ name[p] # RowOf(users, user_id[p]).name

\* C5: the first DELETE of an existing id responds 200 and removes the row;
\* the id never comes back, and every later DELETE of it responds 404.
C5_DeleteOnce ==
    [][/\ \A p \in Procs, id \in Ids :
            delete_user(p, id) =>
                /\ id \in RowIds(users) => status'[p] = 200 /\ id \notin RowIds(users')
                /\ id \notin RowIds(users) => status'[p] = 404
       /\ \A id \in 1..seq : id \notin RowIds(users) => id \notin RowIds(users')]_vars

\* Two DELETEs of id 1: one answered 200, the other 404; the row is gone.
C5_Witness ==
    /\ 1 \notin RowIds(users)
    /\ \E p, q \in Procs :
        /\ Done(p, "delete_user", 200) /\ user_id[p] = 1
        /\ Done(q, "delete_user", 404) /\ user_id[q] = 1

\* C6: the id a successful POST assigns is greater than every id assigned
\* before, deleted rows included: no id is given to a second user.
C6_IdsNeverReused ==
    /\ [](RowIds(users) \subseteq 1..seq)
    /\ [][/\ seq' >= seq
          /\ \A p \in Procs, data \in Bodies :
                (Routed(p, "create_user") /\ status'[p] = 201 /\ create_user(p, data))
                => \E r \in users' \ users :
                        /\ users' = users \cup {r}
                        /\ r.id > seq
                        /\ seq' = r.id]_vars

\* Id 1 was deleted and a later POST was given id 2.
C6_Witness ==
    /\ seq = 2
    /\ RowIds(users) = {2}
    /\ \E p \in Procs : Done(p, "create_user", 201)

\* C7: the UPDATE of a PUT on an existing id is refused with 409 exactly when
\* another row holds the new email, and then changes no row; the row's own
\* email does not conflict (200).
C7_UpdateConflict ==
    [][\A p \in Procs :
        (update_user_execute(p) /\ user_id[p] \in RowIds(users)
            /\ new_name[p] \in Names)
        => /\ status'[p] = 409 <=>
                (\E r \in users : r.id # user_id[p] /\ r.email = new_email[p])
           /\ status'[p] = 409 => users' = users
           /\ new_email[p] = RowOf(users, user_id[p]).email
                => status'[p] = 200]_vars

\* A PUT was answered 409 and both rows still hold their own emails.
C7_Witness ==
    /\ Cardinality(users) = 2
    /\ \E p \in Procs : Done(p, "update_user", 409)

\* C8: a request holds at most one open handle, opened by its first get_db;
\* a request that never calls get_db (GET /, a 400) holds none; no handle
\* outlives its request, however the handler ended.
C8_HandleScoped ==
    /\ openConns = Cardinality({p \in Procs : g_db[p]})
    /\ \A p \in Procs :
        /\ pc[p] = "idle" => ~g_db[p]
        /\ (pc[p] = "done" /\ (handler[p] = "home" \/ status[p] = 400)) => ~g_db[p]
        /\ pc[p] = "update" => g_db[p]

\* One handler raised with its handle open while another request, already
\* torn down, holds none.
C8_Witness ==
    \E p, q \in Procs :
        /\ pc[p] = "done" /\ status[p] = 500 /\ g_db[p]
        /\ pc[q] = "idle" /\ openConns = 1

\* C9: a PUT with a valid body responds 200 only if its row exists when the
\* UPDATE executes, and 404 if the row is absent then.
C9_UpdateNeedsRow ==
    [][\A p \in Procs :
        (update_user_execute(p) /\ new_name[p] \in Names)
        => /\ status'[p] = 200 => user_id[p] \in RowIds(users)
           /\ user_id[p] \notin RowIds(users) => status'[p] = 404]_vars

\* C10: under any interleaving, a PUT that responds 200 changes no field it
\* did not supply, so two concurrent PUTs (one name, one email) both land.
C10_NoLostUpdate ==
    [][\A p \in Procs :
        (update_user_execute(p) /\ status'[p] = 200
            /\ user_id[p] \in RowIds(users))
        => LET old == RowOf(users, user_id[p])
               new == RowOf(users', user_id[p])
           IN /\ ~Truthy(name[p]) => new.name = old.name
              /\ ~Truthy(email[p]) => new.email = old.email]_vars

====
